---- MODULE Spec2Model ----
(***************************************************************************)
(* The S2 exporter of agent-observability: the partitioned buffer of       *)
(* s2Exporter (pushTraces, flushLoop, flushAllBuffers, flushBatch,         *)
(* shutdown) and the stream cache of S2Client (EnsureStream, createStream, *)
(* AppendEvents), as a state machine of goroutines.  Every goroutine step  *)
(* is one action; a step ends where the goroutine can block (a mutex, a    *)
(* network call, the select of flushLoop, wg.Wait).                        *)
(***************************************************************************)
EXTENDS Integers, Sequences, FiniteSets, TLC

(* ------------------------------ bounds --------------------------------- *)

\* events converted over the whole run
MaxEvents == 3
\* spans of one pushTraces call
MaxCallLen == 2
\* largest batch_size of the raw configuration (0 stands for "unset")
MaxBatchSize == 2

\* calls of the remote store that end in an error over the whole run
MaxFailures == 1

(* ------------------------- program constants --------------------------- *)

DefaultBatchSize == 100
DefaultStreamPrefix == "agent-session-"
\* 5 * time.Second, in milliseconds
DefaultFlushInterval == 5000
StatusConflict == 409
StatusBadRequest == 400

(* ----------------------------- goroutines ------------------------------ *)

Pushers == {"p1", "p2"}
\* the flushLoop goroutines: the one of start, and the one of a second call of start
Timers == {"timer", "timer2"}
Flushers == Timers \cup {"shutdown"}
\* a caller of flushBatch other than pushTraces and flushAllBuffers
Callers == {"direct"}
Threads == Pushers \cup Flushers \cup Callers
NoThread == "none"

(* ------------------------------- config -------------------------------- *)

\* the raw configurations newS2Exporter is given: batch_size unset (0) or set,
\* flush_interval (in milliseconds) unset
RawConfigs ==
    { [Endpoint |-> "https://api.s2.dev", APIKey |-> "key",
       StreamPrefix |-> "", BatchSize |-> b, FlushInterval |-> 0] :
        b \in 0..MaxBatchSize }

\* Config.Validate: the error, or "" for nil
ValidateErr(c) ==
    IF c.Endpoint = "" THEN "endpoint is required"
    ELSE IF c.APIKey = "" THEN "api_key is required"
    ELSE ""

\* mutant: a flush interval that is unset or invalid is left as it is
ValidateNoInterval(c) ==
    IF ValidateErr(c) # "" THEN c
    ELSE [c EXCEPT
            !.BatchSize = IF c.BatchSize <= 0 THEN DefaultBatchSize ELSE c.BatchSize,
            !.StreamPrefix = IF c.StreamPrefix = "" THEN DefaultStreamPrefix
                             ELSE c.StreamPrefix]

\* Config.Validate: the configuration it leaves behind
Validate(c) ==
    IF ValidateErr(c) # "" THEN c
    ELSE [c EXCEPT
            !.BatchSize = IF c.BatchSize <= 0 THEN DefaultBatchSize ELSE c.BatchSize,
            !.FlushInterval = IF c.FlushInterval <= 0 THEN DefaultFlushInterval
                              ELSE c.FlushInterval,
            !.StreamPrefix = IF c.StreamPrefix = "" THEN DefaultStreamPrefix
                             ELSE c.StreamPrefix]

(* ------------------------------ converter ------------------------------ *)

\* a value of the attribute gen_ai.conversation.id: absent, a string, or a value
\* of another type
NoAttr == [type |-> "none", str |-> ""]
StrAttr(v) == [type |-> "str", str |-> v]
IntAttr == [type |-> "int", str |-> ""]

\* the spans a pushTraces call can carry: the conversation attribute of the span
\* (attr) and of its resource (res), and the stringified trace identifier
Spans ==
    { [attr |-> StrAttr("conv-123"), res |-> NoAttr, trace |-> "4bf92f"],
      [attr |-> NoAttr,              res |-> NoAttr, trace |-> "4bf92f"] }

\* mutant: the attribute of the resource hides the attribute of the span
MergedAttrResourceFirst(span) ==
    IF span.res.type # "none" THEN span.res ELSE span.attr

\* convertSpan, the merge of the resource attributes: a resource attribute is
\* taken only when the span has no attribute of that key
MergedAttr(span) ==
    IF span.attr.type # "none" THEN span.attr ELSE span.res

\* getStringAttr: the string, or "" when the key is absent or not a string
getStringAttr(v) == IF v.type = "str" THEN v.str ELSE ""

\* convertSpan: the conversation identifier of the event (the event's identity,
\* id, stands for its span identifier)
convertSpan(span, id) ==
    [id |-> id,
     ConversationID |-> IF getStringAttr(MergedAttr(span)) = "" THEN span.trace
                        ELSE getStringAttr(MergedAttr(span))]

\* ConvertTraces: one event per span, in order, with identifiers from+1, from+2..
ConvertTraces(td, from) ==
    [i \in 1..Len(td) |-> convertSpan(td[i], from + i)]

\* mutant: the empty conversation identifier gets no default token
getStreamIDNoDefault(cfg, conversationID) == cfg.StreamPrefix \o conversationID

\* mutant: the stream name without the configured prefix
getStreamIDNoPrefix(cfg, conversationID) ==
    IF conversationID = "" THEN "default" ELSE conversationID

\* getStreamID
getStreamID(cfg, conversationID) ==
    cfg.StreamPrefix \o (IF conversationID = "" THEN "default" ELSE conversationID)

Streams ==
    { getStreamID(Validate(r), convertSpan(sp, 0).ConversationID) :
        r \in RawConfigs, sp \in Spans }

\* the batches of spans of one call: 1..MaxCallLen spans
TraceBatches == UNION { [1..n -> Spans] : n \in 1..MaxCallLen }

(* ------------------------------ helpers -------------------------------- *)

Ids(events) == { events[i].id : i \in 1..Len(events) }

NoBatch == [stream |-> "", events |-> <<>>]

NoBuffers == [s \in Streams |-> <<>>]

NoLockOps == [relock |-> 0, unlock |-> 0]

(* ------------------------------- state --------------------------------- *)

VARIABLES
    config,        \* s2Exporter.config, after Validate
    buffers,       \* s2Exporter.buffers: stream -> pending events (nil = <<>>)
    bufferMu,      \* s2Exporter.bufferMu: the goroutine holding it, or NoThread
    stopCh,        \* s2Exporter.stopCh is closed
    wg,            \* s2Exporter.wg: the counter of the WaitGroup
    knownStreams,  \* S2Client.knownStreams: the keys mapped to true
    streamsMu,     \* S2Client.streamsMu: the goroutine holding the write lock
    pc,            \* where each goroutine is
    todo,          \* pushTraces: the events of the call not yet buffered
    cur,           \* flushBatch: the (streamID, events) a goroutine is flushing
    toFlush,       \* flushAllBuffers: buffersToFlush, the batches not yet flushed
    nextId,        \* events converted so far
    call,          \* history: the identifiers of the events of a running pushTraces call
    arrival,       \* history: per stream, the events in the order they were buffered
    appendLog,     \* history: the AppendEvents calls, in the order they were served
    createLog,     \* history: per stream, the outcome of each finished createStream
    failures,      \* history: the calls of the remote store that ended in an error
    dropped,       \* history: the identifiers of the events of failed flushes
    preShut,       \* history: the events of the pushTraces calls that had returned
                   \* when shutdown was called
    pushRets,      \* history: the values the pushTraces calls returned ("" = nil)
    lockOps,       \* history: per running pushTraces call, how often it has locked
                   \* bufferMu again (line 76) and unlocked it (line 72)
    rpc,           \* doWithRetry: where the call is
    attempt,       \* doWithRetry: attempt
    backoff,       \* doWithRetry: backoff, in milliseconds
    lastErr,       \* doWithRetry: lastErr ("" = nil)
    reqBody,       \* req.Body: the reader, its data and how much of it has been read
    contentLength, \* req.ContentLength
    reqURL,        \* req.URL
    ctxDone,       \* ctx is cancelled
    script,        \* the outcomes of the round trips still to come
    doLog,         \* history: the httpClient.Do calls of the doWithRetry call
    ret,           \* what doWithRetry returned
    applied,       \* history: the last two applications of one function, newest last
    eventSeq,      \* Session.eventSeq
    emitting,      \* the sequence numbers of the goroutines of emitEvent still running
    sessionLog     \* the records of the session's stream, in the order they were appended

\* the state of one doWithRetry call
retryVars == << rpc, attempt, backoff, lastErr, reqBody, contentLength, reqURL, ctxDone,
                script, doLog, ret >>

\* the state of the exporter and of the stream cache
exporterVars == << config, buffers, bufferMu, stopCh, wg, knownStreams, streamsMu, pc, todo,
                   cur, toFlush, nextId, call, arrival, appendLog, createLog, failures,
                   dropped, preShut, pushRets, lockOps >>

\* the functions applied on their own: getStreamID, Config.Validate, convertSpan
pureVars == << applied >>

\* the state of one agentsdk Session
sdkVars == << eventSeq, emitting, sessionLog >>

vars == << exporterVars, retryVars, pureVars, sdkVars >>

\* bytes.NewReader(b)
NewReader(b) == [data |-> b, pos |-> 0]

NoReturn == [kind |-> "none", status |-> 0, err |-> ""]

\* newS2Exporter and NewS2Client: the state after construction
Init ==
    /\ \E raw \in RawConfigs : ValidateErr(raw) = "" /\ config = Validate(raw)
    /\ buffers = NoBuffers
    /\ bufferMu = NoThread
    /\ stopCh = FALSE
    /\ wg = 0
    /\ knownStreams = {}
    /\ streamsMu = NoThread
    /\ pc = [t \in Threads |-> IF t \in Timers THEN "off" ELSE "idle"]
    /\ todo = [p \in Pushers |-> <<>>]
    /\ cur = [t \in Threads |-> NoBatch]
    /\ toFlush = [t \in Flushers |-> NoBuffers]
    /\ nextId = 0
    /\ call = [p \in Pushers |-> {}]
    /\ arrival = NoBuffers
    /\ appendLog = <<>>
    /\ createLog = [s \in Streams |-> <<>>]
    /\ failures = 0
    /\ dropped = {}
    /\ preShut = {}
    /\ pushRets = {}
    /\ lockOps = [p \in Pushers |-> NoLockOps]
    /\ rpc = "idle"
    /\ attempt = 0
    /\ backoff = 0
    /\ lastErr = ""
    /\ reqBody = NewReader(<<>>)
    /\ contentLength = 0
    /\ reqURL = ""
    /\ ctxDone = FALSE
    /\ script = <<>>
    /\ doLog = <<>>
    /\ ret = NoReturn
    /\ applied = <<>>
    /\ eventSeq = 0
    /\ emitting = {}
    /\ sessionLog = <<>>

(* ------------------------- the remote store ---------------------------- *)

\* what doWithRetry hands back to its caller: a response whose status is below
\* 500, or an error (retries exhausted, or the context cancelled)
DoResults ==
    { [err |-> FALSE, status |-> 201], [err |-> FALSE, status |-> 409],
      [err |-> FALSE, status |-> 404], [err |-> TRUE, status |-> 0] }

\* mutant: 409 is an error like any other status >= 400
createStreamErrOnConflict(r) ==
    IF r.err THEN TRUE ELSE r.status >= StatusBadRequest

\* createStream: TRUE when it returns an error
createStreamErr(r) ==
    IF r.err THEN TRUE
    ELSE IF r.status = StatusConflict THEN FALSE
    ELSE r.status >= StatusBadRequest

\* AppendEvents (a non-empty batch): TRUE when it returns an error
appendEventsErr(r) ==
    IF r.err THEN TRUE ELSE r.status >= StatusBadRequest

(* --------------------------- s2Exporter steps -------------------------- *)

\* mutant: the flush is triggered one event late
ThresholdExceeded(cfg, pending) == Len(pending) > cfg.BatchSize

\* pushTraces, line 69: the partition has reached the batch size
ThresholdReached(cfg, pending) == Len(pending) >= cfg.BatchSize

\* mutant: the batch is handed off and stays in the buffer
SwapOutKeep(buf, streamID) == buf

\* pushTraces, line 71: the buffers once the batch of streamID is swapped out
SwapOut(buf, streamID) == [buf EXCEPT ![streamID] = <<>>]

\* flushAllBuffers, lines 101-107: buffersToFlush (<<>> = no entry)
BuffersToFlush(buf) ==
    [s \in Streams |-> IF Len(buf[s]) > 0 THEN buf[s] ELSE <<>>]

\* mutant: the batches are handed off and stay in the buffer
SwapNone(buf) == buf

\* flushAllBuffers, lines 102-107: the buffers once every batch is swapped out
SwapAll(buf) ==
    [s \in Streams |-> IF Len(buf[s]) > 0 THEN <<>> ELSE buf[s]]

\* mutant: shutdown does not wait for flushLoop
WaitSkipped(w) == TRUE

\* shutdown, line 55: wg.Wait returns
WaitDone(w) == w = 0

\* where a goroutine goes on when flushAllBuffers has nothing more to flush
AfterFlushAll(t) == IF t \in Timers THEN "select" ELSE "done"

\* where a goroutine goes on when its flushBatch returns
AfterFlushBatch(t, left) ==
    IF t \in Pushers THEN "relock"
    ELSE IF t \in Callers THEN "idle"
    ELSE IF \A s \in Streams : left[s] = <<>> THEN AfterFlushAll(t)
    ELSE "flushing"

\* mutant: the batch of a failed flush is put back in front of its partition
Rebuffered(buf, batch, failed) ==
    IF failed THEN [buf EXCEPT ![batch.stream] = batch.events \o @] ELSE buf

\* pushTraces, lines 73-75, and flushAllBuffers, lines 111-116: the buffers once
\* flushBatch has returned; its error is logged and nothing else
AfterFlushError(buf, batch, failed) == buf

\* mutant: a failed flush ends the pass of flushAllBuffers
FlushBatchReturnAbort(t, failed) ==
    /\ pc' = [pc EXCEPT ![t] = IF failed /\ t \in Flushers THEN AfterFlushAll(t)
                               ELSE AfterFlushBatch(t, IF t \in Flushers THEN toFlush[t]
                                                       ELSE NoBuffers)]
    /\ buffers' = AfterFlushError(buffers, cur[t], failed)
    /\ cur' = [cur EXCEPT ![t] = NoBatch]
    /\ dropped' = IF failed THEN dropped \cup Ids(cur[t].events) ELSE dropped
    /\ failed => failures < MaxFailures
    /\ failures' = IF failed THEN failures + 1 ELSE failures

\* flushBatch returns to pushTraces or to flushAllBuffers; both only log an error,
\* so the batch of a failed flush is gone
FlushBatchReturn(t, failed) ==
    /\ pc' = [pc EXCEPT ![t] = AfterFlushBatch(t, IF t \in Flushers THEN toFlush[t] ELSE NoBuffers)]
    /\ buffers' = AfterFlushError(buffers, cur[t], failed)
    /\ cur' = [cur EXCEPT ![t] = NoBatch]
    /\ dropped' = IF failed THEN dropped \cup Ids(cur[t].events) ELSE dropped
    /\ failed => failures < MaxFailures
    /\ failures' = IF failed THEN failures + 1 ELSE failures

\* the events of the pushTraces calls that have returned
Returned == (1..nextId) \ UNION { call[p] : p \in Pushers }

\* start: wg.Add(1); go flushLoop().  The collector starts a component once,
\* before it shuts it down.
Start ==
    /\ pc["timer"] = "off"
    /\ pc["shutdown"] = "idle"
    /\ wg' = wg + 1
    /\ pc' = [pc EXCEPT !["timer"] = "select"]
    /\ UNCHANGED << config, buffers, bufferMu, stopCh, knownStreams, streamsMu, todo,
                    cur, toFlush, nextId, call, arrival, appendLog, createLog, failures, dropped, preShut >>
    /\ UNCHANGED << pushRets, lockOps, retryVars, pureVars, sdkVars >>

\* start called once more, before any ingest and before shutdown: wg.Add(1) and
\* another go flushLoop()
StartAgain ==
    /\ pc["timer"] # "off"
    /\ pc["timer2"] = "off"
    /\ pc["shutdown"] = "idle"
    /\ nextId = 0
    /\ wg' = wg + 1
    /\ pc' = [pc EXCEPT !["timer2"] = "select"]
    /\ UNCHANGED << config, buffers, bufferMu, stopCh, knownStreams, streamsMu, todo,
                    cur, toFlush, nextId, call, arrival, appendLog, createLog, failures, dropped, preShut >>
    /\ UNCHANGED << pushRets, lockOps, retryVars, pureVars, sdkVars >>

\* pushTraces, lines 62-64: ConvertTraces (nothing shared is read), then
\* bufferMu.Lock()
PushTracesCall(p, td) ==
    /\ pc[p] = "idle"
    /\ nextId + Len(td) <= MaxEvents
    /\ bufferMu = NoThread
    /\ bufferMu' = p
    /\ todo' = [todo EXCEPT ![p] = ConvertTraces(td, nextId)]
    /\ call' = [call EXCEPT ![p] = (nextId + 1)..(nextId + Len(td))]
    /\ nextId' = nextId + Len(td)
    /\ pc' = [pc EXCEPT ![p] = "loop"]
    /\ UNCHANGED << config, buffers, stopCh, wg, knownStreams, streamsMu, cur, toFlush,
                    arrival, appendLog, createLog, failures, dropped, preShut >>
    /\ UNCHANGED << pushRets, retryVars, pureVars, sdkVars >>
    /\ lockOps' = [lockOps EXCEPT ![p] = NoLockOps]

\* pushTraces, line 76: bufferMu.Lock() after the flush
PushTracesRelock(p) ==
    /\ pc[p] = "relock"
    /\ bufferMu = NoThread
    /\ bufferMu' = p
    /\ pc' = [pc EXCEPT ![p] = "loop"]
    /\ UNCHANGED << config, buffers, stopCh, wg, knownStreams, streamsMu, todo, cur,
                    toFlush, nextId, call, arrival, appendLog, createLog, failures, dropped,
                    preShut >>
    /\ UNCHANGED << pushRets, retryVars, pureVars, sdkVars >>
    /\ lockOps' = [lockOps EXCEPT ![p].relock = @ + 1]

\* mutant: the batch is flushed with the buffer mutex still held
UnlockSkipped(mu) == mu

\* pushTraces, line 72: bufferMu.Unlock() before the call of flushBatch
Unlock(mu) == NoThread

\* pushTraces, lines 65-72: one turn of the loop, up to the call of flushBatch
PushTracesEvent(p) ==
    /\ pc[p] = "loop"
    /\ todo[p] # <<>>
    /\ LET event == Head(todo[p])
           streamID == getStreamID(config, event.ConversationID)
           pending == Append(buffers[streamID], event)
       IN  /\ todo' = [todo EXCEPT ![p] = Tail(todo[p])]
           /\ arrival' = [arrival EXCEPT ![streamID] = Append(@, event.id)]
           /\ IF ThresholdReached(config, pending)
              THEN /\ cur' = [cur EXCEPT ![p] = [stream |-> streamID, events |-> pending]]
                   /\ buffers' = SwapOut([buffers EXCEPT ![streamID] = pending], streamID)
                   /\ bufferMu' = Unlock(bufferMu)
                   /\ lockOps' = [lockOps EXCEPT ![p].unlock = @ + 1]
                   /\ pc' = [pc EXCEPT ![p] = "ensure"]
              ELSE /\ buffers' = [buffers EXCEPT ![streamID] = pending]
                   /\ UNCHANGED << cur, bufferMu, pc, lockOps >>
    /\ UNCHANGED << call, config, stopCh, wg, knownStreams, streamsMu, toFlush, nextId,
                    appendLog, createLog, failures, dropped, preShut >>
    /\ UNCHANGED << pushRets, retryVars, pureVars, sdkVars >>

\* mutant: the error of a failed flush is returned
PushTracesResultErr(flushFailed) == IF flushFailed THEN "failed to flush batch" ELSE ""

\* pushTraces, lines 73-75 and 81: the error of flushBatch is logged, and the value
\* returned is nil ("") whether a flush of the call failed or not
PushTracesResult(flushFailed) == ""

\* pushTraces, lines 78-81: the loop is over; bufferMu.Unlock(); return nil
PushTracesReturn(p) ==
    /\ pc[p] = "loop"
    /\ todo[p] = <<>>
    /\ bufferMu' = NoThread
    /\ pc' = [pc EXCEPT ![p] = "idle"]
    /\ call' = [call EXCEPT ![p] = {}]
    /\ pushRets' = pushRets \cup {PushTracesResult(call[p] \cap dropped # {})}
    /\ lockOps' = [lockOps EXCEPT ![p] = NoLockOps]
    /\ UNCHANGED << config, buffers, stopCh, wg, knownStreams, streamsMu, todo, cur,
                    toFlush, nextId, arrival, appendLog, createLog, failures, dropped, preShut >>
    /\ UNCHANGED << retryVars, pureVars, sdkVars >>

\* mutant: the select of flushLoop never takes the stop case
StopNeverObserved(ch) == FALSE

\* flushLoop, line 93: case <-e.stopCh is ready once the channel is closed
StopObserved(ch) == ch

\* flushLoop, lines 93-94 and 85: stopCh is closed; return; wg.Done()
FlushLoopStop(t) ==
    /\ pc[t] = "select"
    /\ StopObserved(stopCh)
    /\ wg' = wg - 1
    /\ pc' = [pc EXCEPT ![t] = "exited"]
    /\ UNCHANGED << config, buffers, bufferMu, stopCh, knownStreams, streamsMu, todo,
                    cur, toFlush, nextId, call, arrival, appendLog, createLog, failures, dropped, preShut >>
    /\ UNCHANGED << pushRets, lockOps, retryVars, pureVars, sdkVars >>

\* shutdown, line 54: close(stopCh)
ShutdownClose ==
    /\ pc["shutdown"] = "idle"
    /\ stopCh' = TRUE
    /\ preShut' = Returned
    /\ pc' = [pc EXCEPT !["shutdown"] = "wait"]
    /\ UNCHANGED << config, buffers, bufferMu, wg, knownStreams, streamsMu, todo, cur,
                    toFlush, nextId, call, arrival, appendLog, createLog, failures,
                    dropped >>
    /\ UNCHANGED << pushRets, lockOps, retryVars, pureVars, sdkVars >>

\* what lets a goroutine enter flushAllBuffers: in flushLoop (line 91) the ticker
\* has fired; in shutdown (line 55) wg.Wait() has returned
MayFlushAll(t) ==
    IF t \in Timers THEN pc[t] = "select" ELSE pc[t] = "wait" /\ WaitDone(wg)

\* flushLoop, lines 91-92, or shutdown, lines 55-56, and flushAllBuffers, lines
\* 100-108: the critical section (nothing in it blocks)
FlushAllSwap(t) ==
    /\ MayFlushAll(t)
    /\ bufferMu = NoThread
    /\ toFlush' = [toFlush EXCEPT ![t] = BuffersToFlush(buffers)]
    /\ buffers' = SwapAll(buffers)
    /\ pc' = [pc EXCEPT ![t] = IF \A s \in Streams : BuffersToFlush(buffers)[s] = <<>>
                               THEN AfterFlushAll(t) ELSE "flushing"]
    /\ UNCHANGED << config, bufferMu, stopCh, wg, knownStreams, streamsMu, todo, cur,
                    nextId, call, arrival, appendLog, createLog, failures, dropped, preShut >>
    /\ UNCHANGED << pushRets, lockOps, retryVars, pureVars, sdkVars >>

\* mutant: the next batch is handed off while the previous flushBatch is running
NextBatchReadyEarly(p) == p \in {"flushing", "ensure", "ensureLock", "create", "append"}

\* flushAllBuffers, lines 110-111: the loop takes its next turn when the call of
\* flushBatch of the previous turn has returned
NextBatchReady(p) == p = "flushing"

\* flushAllBuffers, lines 110-111: the next entry of buffersToFlush, in the order
\* the map iteration yields (any), is handed to flushBatch
FlushAllNext(t, streamID) ==
    /\ NextBatchReady(pc[t])
    /\ toFlush[t][streamID] # <<>>
    /\ cur' = [cur EXCEPT ![t] = [stream |-> streamID, events |-> toFlush[t][streamID]]]
    /\ toFlush' = [toFlush EXCEPT ![t][streamID] = <<>>]
    /\ pc' = [pc EXCEPT ![t] = "ensure"]
    /\ UNCHANGED << config, buffers, bufferMu, stopCh, wg, knownStreams, streamsMu,
                    todo, nextId, call, arrival, appendLog, createLog, failures, dropped, preShut >>
    /\ UNCHANGED << pushRets, lockOps, retryVars, pureVars, sdkVars >>

(* ---------------------- flushBatch and S2Client ------------------------ *)

\* mutant: no second check under the write lock
NeedsCreateAlways(known, streamID) == TRUE

\* EnsureStream, line 196: the check under the write lock
NeedsCreate(known, streamID) == streamID \notin known

\* mutant: the map is replaced instead of extended
MarkOnly(known, streamID) == {streamID}

\* EnsureStream, line 204
MarkKnown(known, streamID) == known \cup {streamID}

\* mutant: flushBatch goes on with an empty batch
EmptyBatchIgnored(events) == FALSE

\* flushBatch, line 121
EmptyBatch(events) == Len(events) = 0

\* flushBatch is called with a batch that is empty or holds events not seen before
FlushBatchCall(t, streamID, td) ==
    /\ pc[t] = "idle"
    /\ nextId + Len(td) <= MaxEvents
    /\ cur' = [cur EXCEPT ![t] = [stream |-> streamID, events |-> ConvertTraces(td, nextId)]]
    /\ nextId' = nextId + Len(td)
    /\ pc' = [pc EXCEPT ![t] = "ensure"]
    /\ UNCHANGED << config, buffers, bufferMu, stopCh, wg, knownStreams, streamsMu, todo,
                    toFlush, call, arrival, appendLog, createLog, failures, dropped, preShut >>
    /\ UNCHANGED << pushRets, lockOps, retryVars, pureVars, sdkVars >>

\* flushBatch, lines 121-125, and EnsureStream, lines 186-191: an empty batch
\* returns at once; otherwise the check under the read lock
EnsureStreamFast(t) ==
    /\ pc[t] = "ensure"
    /\ IF EmptyBatch(cur[t].events)
       THEN FlushBatchReturn(t, FALSE)
       ELSE /\ streamsMu = NoThread
            /\ pc' = [pc EXCEPT ![t] = IF cur[t].stream \in knownStreams
                                       THEN "append" ELSE "ensureLock"]
            /\ UNCHANGED << buffers, cur, failures, dropped >>
    /\ UNCHANGED << config, bufferMu, stopCh, wg, knownStreams, streamsMu,
                    todo, toFlush, nextId, call, arrival, appendLog, createLog,
                    preShut >>
    /\ UNCHANGED << pushRets, lockOps, retryVars, pureVars, sdkVars >>

\* mutant: createStream is called without the write lock
LockSkipped(mu, t) == mu

\* EnsureStream, lines 193-194: streamsMu.Lock(), released when EnsureStream returns
Lock(mu, t) == t

\* EnsureStream, lines 193-200: the write lock, the second check, and the call of
\* createStream with the lock held
EnsureStreamSlow(t) ==
    /\ pc[t] = "ensureLock"
    /\ streamsMu = NoThread
    /\ IF NeedsCreate(knownStreams, cur[t].stream)
       THEN /\ streamsMu' = Lock(streamsMu, t)
            /\ pc' = [pc EXCEPT ![t] = "create"]
       ELSE /\ pc' = [pc EXCEPT ![t] = "append"]
            /\ UNCHANGED streamsMu
    /\ UNCHANGED << config, buffers, bufferMu, stopCh, wg, knownStreams, todo, cur,
                    toFlush, nextId, call, arrival, appendLog, createLog, failures, dropped, preShut >>
    /\ UNCHANGED << pushRets, lockOps, retryVars, pureVars, sdkVars >>

\* mutant: flushBatch goes on to AppendEvents whatever EnsureStream returned
EnsureFailedIgnored(err) == FALSE

\* flushBatch, lines 125-127: the error of EnsureStream ends flushBatch
EnsureFailed(err) == err

\* createStream returns, EnsureStream, lines 200-205, and flushBatch, lines 125-127
CreateStreamDone(t, r) ==
    /\ pc[t] = "create"
    /\ streamsMu' = NoThread
    /\ createLog' = [createLog EXCEPT ![cur[t].stream] = Append(@, ~createStreamErr(r))]
    /\ IF EnsureFailed(createStreamErr(r))
       THEN /\ FlushBatchReturn(t, TRUE)
            /\ UNCHANGED knownStreams
       ELSE /\ knownStreams' = MarkKnown(knownStreams, cur[t].stream)
            /\ pc' = [pc EXCEPT ![t] = "append"]
            /\ UNCHANGED << buffers, cur, failures, dropped >>
    /\ UNCHANGED << config, bufferMu, stopCh, wg, todo, toFlush, nextId,
                    call, arrival, appendLog, preShut >>
    /\ UNCHANGED << pushRets, lockOps, retryVars, pureVars, sdkVars >>

\* AppendEvents is served, and flushBatch, lines 129-137
AppendEventsDone(t, r) ==
    /\ pc[t] = "append"
    /\ appendLog' = Append(appendLog, [by |-> t, stream |-> cur[t].stream,
                                       events |-> cur[t].events,
                                       ok |-> ~appendEventsErr(r)])
    /\ FlushBatchReturn(t, appendEventsErr(r))
    /\ UNCHANGED << config, bufferMu, stopCh, wg, knownStreams, streamsMu,
                    todo, toFlush, nextId, call, arrival, createLog, preShut >>
    /\ UNCHANGED << pushRets, lockOps, retryVars, pureVars, sdkVars >>

(* ----------------------------- doWithRetry ----------------------------- *)

\* the longest request body (in records) of a doWithRetry call
MaxBodyLen == 2

\* createStream, line 226, and AppendEvents, line 278: maxRetries
MaxRetries == 3
\* doWithRetry, line 299: the first backoff, in milliseconds
BaseBackoff == 100
\* doWithRetry, line 323
StatusServerError == 500

\* how a round trip of the transport can end: a response of the store, or a
\* transport-level failure before the body was read ("refused") or after ("reset")
Outcomes ==
    { [kind |-> "status", status |-> 201], [kind |-> "status", status |-> 404],
      [kind |-> "status", status |-> 503],
      [kind |-> "refused", status |-> 0], [kind |-> "reset", status |-> 0] }

\* the outcomes of the round trips of one call, in order
Scripts == [1..MaxRetries -> Outcomes]

\* the request bodies createStream and AppendEvents marshal: never empty
Bodies == { [i \in 1..n |-> i] : n \in 1..MaxBodyLen }

\* io.ReadAll(r): what is left to read of the reader
ReadAll(r) == SubSeq(r.data, r.pos + 1, Len(r.data))

\* the reader once it has been read to its end
Drained(r) == [r EXCEPT !.pos = Len(r.data)]

\* doWithRetry, lines 310-311: req.Body is replaced by a reader over what
\* io.ReadAll still finds in req.Body
RereadBody(r) == NewReader(ReadAll(r))

\* mutant: every status >= 400 is retried
RetryStatusClientError(status) == status >= StatusBadRequest

\* doWithRetry, line 323: the status is retried
RetryStatus(status) == status >= StatusServerError

\* doWithRetry, line 301: the loop condition
AttemptsLeft(a, maxRetries) == a < maxRetries

\* mutant: the select never takes the ctx.Done() case
CtxNeverSelected(done) == FALSE

\* doWithRetry, lines 303-305: the select takes the ctx.Done() case (the channel of
\* time.After, made when the select is entered, is not ready while ctx.Done() is)
CtxSelected(done) == done

\* doWithRetry, lines 316 and 325, the continue, and line 335: a failed attempt
FailedAttempt(err) ==
    /\ lastErr' = err
    /\ attempt' = attempt + 1
    /\ IF AttemptsLeft(attempt + 1, MaxRetries)
       THEN rpc' = "select" /\ UNCHANGED ret
       ELSE /\ rpc' = "returned"
            /\ ret' = [kind |-> "exhausted", status |-> 0, err |-> err]

\* doWithRetry, lines 323-332: the transport returned a response
GotResponse(status) ==
    IF RetryStatus(status)
    THEN FailedAttempt("server error")
    ELSE /\ rpc' = "returned"
         /\ ret' = [kind |-> "resp", status |-> status, err |-> ""]
         /\ UNCHANGED << attempt, lastErr >>

\* createStream, line 218: the URL of the request
CreateStreamURL(endpoint) == endpoint \o "/streams"

\* http.NewRequestWithContext over the marshalled body, and the call of
\* doWithRetry, lines 298-301
NewRequestDo(url, body, sc) ==
    /\ rpc = "idle"
    /\ reqURL' = url
    /\ reqBody' = NewReader(body)
    /\ contentLength' = Len(body)
    /\ script' = sc
    /\ attempt' = 0
    /\ backoff' = BaseBackoff
    /\ lastErr' = ""
    /\ rpc' = "do"
    /\ UNCHANGED << ctxDone, doLog, ret >>

\* createStream, lines 213-226: the request is built over the marshalled body
\* and doWithRetry is called
DoWithRetryCall(body, sc) ==
    /\ NewRequestDo(CreateStreamURL(config.Endpoint), body, sc)
    /\ UNCHANGED << exporterVars, pureVars, sdkVars >>

\* the caller's context is cancelled
CtxCancel ==
    /\ rpc \in {"do", "select"}
    /\ ~ctxDone
    /\ ctxDone' = TRUE
    /\ UNCHANGED << rpc, attempt, backoff, lastErr, reqBody, contentLength, reqURL,
                    script, doLog, ret >>
    /\ UNCHANGED << exporterVars, pureVars, sdkVars >>

\* doWithRetry, lines 302-312: the backoff wait of a retry, and the body is re-read
BackoffSelect ==
    /\ rpc = "select"
    /\ IF CtxSelected(ctxDone)
       THEN /\ rpc' = "returned"
            /\ ret' = [kind |-> "ctxErr", status |-> 0, err |-> "context canceled"]
            /\ UNCHANGED << backoff, reqBody >>
       ELSE /\ backoff' = backoff * 2
            /\ reqBody' = RereadBody(reqBody)
            /\ rpc' = "do"
            /\ UNCHANGED ret
    /\ UNCHANGED << attempt, lastErr, contentLength, reqURL, ctxDone, script, doLog >>
    /\ UNCHANGED << exporterVars, pureVars, sdkVars >>

\* doWithRetry, lines 314-332: httpClient.Do(req) on a cancelled context returns
\* the context's error; the body may have been read or not
HttpDoCancelled(readAll) ==
    /\ rpc = "do"
    /\ ctxDone
    /\ reqBody' = IF readAll THEN Drained(reqBody) ELSE reqBody
    /\ doLog' = Append(doLog, [url |-> reqURL, body |-> ReadAll(reqBody), kind |-> "canceled",
                               status |-> 0, n |-> attempt + 1])
    /\ FailedAttempt("context canceled")
    /\ UNCHANGED << backoff, contentLength, reqURL, ctxDone, script >>
    /\ UNCHANGED << exporterVars, pureVars, sdkVars >>

\* doWithRetry, lines 314-332: httpClient.Do(req) when req.Body holds fewer bytes
\* than req.ContentLength: the transport reads the body and fails writing the
\* request, and the store answers nothing
HttpDoShortBody ==
    /\ rpc = "do"
    /\ ~ctxDone
    /\ Len(ReadAll(reqBody)) # contentLength
    /\ reqBody' = Drained(reqBody)
    /\ doLog' = Append(doLog, [url |-> reqURL, body |-> ReadAll(reqBody), kind |-> "short body",
                               status |-> 0, n |-> attempt + 1])
    /\ FailedAttempt("transport")
    /\ UNCHANGED << backoff, contentLength, reqURL, ctxDone, script >>
    /\ UNCHANGED << exporterVars, pureVars, sdkVars >>

\* doWithRetry, lines 314-332: httpClient.Do(req) sends the request and the round
\* trip ends as the script says; the body has been read unless the connection
\* was refused
HttpDoRoundTrip ==
    /\ rpc = "do"
    /\ ~ctxDone
    /\ Len(ReadAll(reqBody)) = contentLength
    /\ script # <<>>
    /\ LET o == Head(script)
       IN  /\ reqBody' = IF o.kind = "refused" THEN reqBody ELSE Drained(reqBody)
           /\ doLog' = Append(doLog, [url |-> reqURL, body |-> ReadAll(reqBody), kind |-> o.kind,
                                      status |-> o.status, n |-> attempt + 1])
           /\ IF o.kind = "status" THEN GotResponse(o.status)
              ELSE FailedAttempt("transport")
    /\ script' = Tail(script)
    /\ UNCHANGED << backoff, contentLength, reqURL, ctxDone >>
    /\ UNCHANGED << exporterVars, pureVars, sdkVars >>

(* --------------------------- specifications --------------------------- *)

\* the whole exporter: concurrent pushTraces callers, the flush timer, shutdown
Next ==
    \/ Start
    \/ \E p \in Pushers, td \in TraceBatches : PushTracesCall(p, td)
    \/ \E p \in Pushers : PushTracesRelock(p)
    \/ \E p \in Pushers : PushTracesEvent(p)
    \/ \E p \in Pushers : PushTracesReturn(p)
    \/ FlushLoopStop("timer")
    \/ ShutdownClose
    \/ \E t \in Flushers : FlushAllSwap(t)
    \/ \E t \in Flushers, s \in Streams : FlushAllNext(t, s)
    \/ \E t \in Threads : EnsureStreamFast(t)
    \/ \E t \in Threads : EnsureStreamSlow(t)
    \/ \E t \in Threads, r \in DoResults : CreateStreamDone(t, r)
    \/ \E t \in Threads, r \in DoResults : AppendEventsDone(t, r)

Spec == Init /\ [][Next]_vars

\* pushTraces called sequentially (one caller), with the flush timer and shutdown
SeqThreads == {"p1"} \cup Flushers

NextSeq ==
    \/ Start
    \/ \E td \in TraceBatches : PushTracesCall("p1", td)
    \/ PushTracesRelock("p1")
    \/ PushTracesEvent("p1")
    \/ PushTracesReturn("p1")
    \/ FlushLoopStop("timer")
    \/ ShutdownClose
    \/ \E t \in Flushers : FlushAllSwap(t)
    \/ \E t \in Flushers, s \in Streams : FlushAllNext(t, s)
    \/ \E t \in SeqThreads : EnsureStreamFast(t)
    \/ \E t \in SeqThreads : EnsureStreamSlow(t)
    \/ \E t \in SeqThreads, r \in DoResults : CreateStreamDone(t, r)
    \/ \E t \in SeqThreads, r \in DoResults : AppendEventsDone(t, r)

SpecSeq == Init /\ [][NextSeq]_vars

\* concurrent pushTraces callers alone: the exporter is not started and not shut down
NextPush ==
    \/ \E p \in Pushers, td \in TraceBatches : PushTracesCall(p, td)
    \/ \E p \in Pushers : PushTracesRelock(p)
    \/ \E p \in Pushers : PushTracesEvent(p)
    \/ \E p \in Pushers : PushTracesReturn(p)
    \/ \E p \in Pushers : EnsureStreamFast(p)
    \/ \E p \in Pushers : EnsureStreamSlow(p)
    \/ \E p \in Pushers, r \in DoResults : CreateStreamDone(p, r)
    \/ \E p \in Pushers, r \in DoResults : AppendEventsDone(p, r)

SpecPush == Init /\ [][NextPush]_vars

\* flushBatch called with the empty batch, next to the flush timer and one
\* pushTraces caller
FlushThreads == {"p1", "timer"} \cup Callers

NextFlush ==
    \/ Start
    \/ \E c \in Callers, s \in Streams : FlushBatchCall(c, s, <<>>)
    \/ \E td \in TraceBatches : PushTracesCall("p1", td)
    \/ PushTracesRelock("p1")
    \/ PushTracesEvent("p1")
    \/ PushTracesReturn("p1")
    \/ FlushAllSwap("timer")
    \/ \E s \in Streams : FlushAllNext("timer", s)
    \/ \E t \in FlushThreads : EnsureStreamFast(t)
    \/ \E t \in FlushThreads : EnsureStreamSlow(t)
    \/ \E t \in FlushThreads, r \in DoResults : CreateStreamDone(t, r)
    \/ \E t \in FlushThreads, r \in DoResults : AppendEventsDone(t, r)

SpecFlush == Init /\ [][NextFlush]_vars

\* start called once or twice, then one pushTraces caller, the flush timers and
\* shutdown
StartThreads == {"p1"} \cup Flushers

NextStart ==
    \/ Start
    \/ StartAgain
    \/ \E td \in TraceBatches : PushTracesCall("p1", td)
    \/ PushTracesRelock("p1")
    \/ PushTracesEvent("p1")
    \/ PushTracesReturn("p1")
    \/ \E t \in Timers : FlushLoopStop(t)
    \/ ShutdownClose
    \/ \E t \in Flushers : FlushAllSwap(t)
    \/ \E t \in Flushers, s \in Streams : FlushAllNext(t, s)
    \/ \E t \in StartThreads : EnsureStreamFast(t)
    \/ \E t \in StartThreads : EnsureStreamSlow(t)
    \/ \E t \in StartThreads, r \in DoResults : CreateStreamDone(t, r)
    \/ \E t \in StartThreads, r \in DoResults : AppendEventsDone(t, r)

SpecStart == Init /\ [][NextStart]_vars

\* one doWithRetry call, with a context that can be cancelled at any time
NextRetry ==
    \/ \E body \in Bodies, sc \in Scripts : DoWithRetryCall(body, sc)
    \/ CtxCancel
    \/ BackoffSelect
    \/ \E readAll \in BOOLEAN : HttpDoCancelled(readAll)
    \/ HttpDoShortBody
    \/ HttpDoRoundTrip

SpecRetry == Init /\ [][NextRetry]_vars

(* ----------------------------- observers ------------------------------ *)

\* a goroutine is inside flushBatch, on cur[t]
FlushStates == {"ensure", "ensureLock", "create", "append"}

InFlight(t) == pc[t] \in FlushStates

IdSeq(events) == [i \in 1..Len(events) |-> events[i].id]

\* the events a stream holds in the remote store: the batches of the AppendEvents
\* calls that succeeded for it, in the order they were served
RECURSIVE RemoteOf(_, _)
RemoteOf(log, streamID) ==
    IF log = <<>> THEN <<>>
    ELSE (IF Head(log).stream = streamID /\ Head(log).ok
          THEN IdSeq(Head(log).events) ELSE <<>>) \o RemoteOf(Tail(log), streamID)

\* the AppendEvents calls (entries of appendLog) that carried event id
AppendCallsOf(id) ==
    { i \in 1..Len(appendLog) : id \in Ids(appendLog[i].events) }

PendingIds == UNION { Ids(buffers[s]) : s \in Streams }

\* the position of x in sequence seq (0 when it is not there)
PosIn(seq, x) ==
    IF \E i \in 1..Len(seq) : seq[i] = x
    THEN CHOOSE i \in 1..Len(seq) : seq[i] = x
    ELSE 0

\* seq lists its elements in the order arrival lists them
InArrivalOrder(seq, arr) ==
    \A i, j \in 1..Len(seq) :
        i < j => PosIn(arr, seq[i]) > 0 /\ PosIn(arr, seq[i]) < PosIn(arr, seq[j])

(* ------------------------------- claims -------------------------------- *)

\* C1: after sequential pushTraces calls that all returned before shutdown was
\* called, and with no failing EnsureStream or AppendEvents, once shutdown has
\* returned every event is in exactly one AppendEvents call, to the stream of its
\* own partition, and each stream holds its partition's events in arrival order.
C1_ExactlyOnceInArrivalOrder ==
    ( /\ pc["shutdown"] = "done"
      /\ preShut = 1..nextId
      /\ \A p \in Pushers : pc[p] = "idle"
      /\ failures = 0 )
    => /\ \A id \in 1..nextId : Cardinality(AppendCallsOf(id)) = 1
       /\ \A s \in Streams : RemoteOf(appendLog, s) = arrival[s]

\* the events of the AppendEvents calls that succeeded
AppendedIds ==
    UNION { Ids(appendLog[i].events) : i \in { j \in 1..Len(appendLog) : appendLog[j].ok } }

\* shutdown is past wg.Wait(): in its final flushAllBuffers, or returned
ShutdownPastWait == pc["shutdown"] \notin {"idle", "wait"}

\* shutdown closes stopCh first, and flushes only when flushLoop has returned
ShutdownStepsInOrder ==
    /\ pc["shutdown"] # "idle" => stopCh
    /\ ShutdownPastWait =>
          /\ wg = 0
          /\ pc["timer"] \in {"off", "exited"}
          /\ cur["timer"] = NoBatch
          /\ toFlush["timer"] = NoBuffers

C3_RemoteOrderIsIngestOrder ==
    \A s \in Streams : InArrivalOrder(RemoteOf(appendLog, s), arrival[s])

\* C4: at most one flushBatch is in progress per stream at any time.
C4_OneInFlightBatchPerPartition ==
    \A t1, t2 \in Threads :
        (t1 # t2 /\ InFlight(t1) /\ InFlight(t2)) => cur[t1].stream # cur[t2].stream

\* the handed-off batches that hold event id: the batch of a running flushBatch,
\* the batches flushAllBuffers has swapped out and not yet flushed, the batches of
\* the finished AppendEvents calls, and the batches dropped before AppendEvents
HandOffs(id) ==
    Cardinality({ t \in Threads : id \in Ids(cur[t].events) })
    + Cardinality({ x \in Flushers \X Streams : id \in Ids(toFlush[x[1]][x[2]]) })
    + Cardinality(AppendCallsOf(id))
    + (IF id \in dropped /\ AppendCallsOf(id) = {} THEN 1 ELSE 0)

\* C5: no event is ever in two handed-off batches, and no event is in a handed-off
\* batch and still pending: the hand-off empties the partition in the same
\* critical section.
C5_NoEventInTwoBatches ==
    \A id \in 1..nextId :
        /\ HandOffs(id) <= 1
        /\ HandOffs(id) = 1 => id \notin PendingIds

\* C5 witness: the timer flushes a batch while events ingested after its swap are
\* pending in the same partition
C5_Witness ==
    /\ InFlight("timer")
    /\ buffers[cur["timer"].stream] # <<>>

\* a pushTraces caller takes one turn of its loop
LoopTurn(p) == pc[p] = "loop" /\ todo'[p] # todo[p]

\* the stream of the event that caller p buffers next
NextStream(p) == getStreamID(config, Head(todo[p]).ConversationID)

\* C6: when an append brings a partition to exactly the batch size, the caller
\* hands off exactly that many events in the same step and leaves the partition
\* empty; what is ingested while the batch is flushed shares no event with it.
C6_ThresholdFlush ==
    /\ [](\A p \in Pushers : InFlight(p) =>
            /\ Len(cur[p].events) = config.BatchSize
            /\ Ids(buffers[cur[p].stream]) \cap Ids(cur[p].events) = {})
    /\ [][\A p \in Pushers :
            (LoopTurn(p) /\ Len(buffers[NextStream(p)]) + 1 = config.BatchSize) =>
                /\ pc'[p] = "ensure"
                /\ cur'[p].stream = NextStream(p)
                /\ cur'[p].events = Append(buffers[NextStream(p)], Head(todo[p]))
                /\ buffers'[NextStream(p)] = <<>>]_vars

\* C6 witness: a batch of batch size 2 is being flushed while the partition has
\* started a fresh accumulation
C6_Witness ==
    \E p \in Pushers :
        /\ InFlight(p)
        /\ config.BatchSize = 2
        /\ Len(cur[p].events) = 2
        /\ Len(buffers[cur[p].stream]) = 1

\* the timer swaps the buffers out
TimerSwap == pc["timer"] = "select" /\ pc'["timer"] = "flushing"

\* C7: a timer fire swaps out the whole pending sequence of every non-empty
\* partition, leaving every partition empty, and hands each swapped sequence to
\* flushBatch as one batch before the timer waits again.
C7_TimerFlushEmptiesAll ==
    /\ [](pc["timer"] = "select" => toFlush["timer"] = NoBuffers)
    /\ [][TimerSwap =>
            \A s \in Streams : buffers'[s] = <<>> /\ toFlush'["timer"][s] = buffers[s]]_vars
    /\ [][(pc["timer"] = "flushing" /\ pc'["timer"] = "ensure") =>
            /\ cur'["timer"].events # <<>>
            /\ cur'["timer"].events = toFlush["timer"][cur'["timer"].stream]]_vars

\* C7 witness: the timer has swapped out two non-empty partitions at once
C7_Witness ==
    /\ pc["timer"] = "flushing"
    /\ \A s \in Streams : toFlush["timer"][s] # <<>> /\ buffers[s] = <<>>

\* seq is a run of consecutive elements of arr
IsSegment(seq, arr) ==
    \E k \in 0..(Len(arr) - Len(seq)) : \A i \in 1..Len(seq) : arr[k + i] = seq[i]

\* C8: an append that leaves a partition below the batch size triggers no flush
\* and no remote call; the timer then swaps out exactly what is pending, and its
\* append carries those events, fewer than the batch size, in arrival order, to the
\* stream named prefix + conversation identifier.
C8_BelowThresholdWaitsForTimer ==
    /\ [](\A i \in 1..Len(appendLog) :
            appendLog[i].by = "timer" =>
                /\ Len(appendLog[i].events) < config.BatchSize
                /\ IsSegment(IdSeq(appendLog[i].events), arrival[appendLog[i].stream])
                /\ \A k \in 1..Len(appendLog[i].events) :
                      appendLog[i].stream =
                          config.StreamPrefix \o appendLog[i].events[k].ConversationID)
    /\ [][\A p \in Pushers :
            (LoopTurn(p) /\ Len(buffers[NextStream(p)]) + 1 < config.BatchSize) =>
                /\ pc'[p] = "loop"
                /\ buffers'[NextStream(p)] = Append(buffers[NextStream(p)], Head(todo[p]))
                /\ UNCHANGED << cur, appendLog, createLog, streamsMu >>]_vars
    /\ [][TimerSwap => \A s \in Streams : toFlush'["timer"][s] = buffers[s]]_vars

\* C8 witness: with batch size 100, the only append is the timer's, of the 3
\* events of conversation "conv-123", to "agent-session-conv-123"
C8_Witness ==
    /\ config.BatchSize = 100
    /\ Len(appendLog) = 1
    /\ appendLog[1].by = "timer"
    /\ appendLog[1].ok
    /\ appendLog[1].stream = "agent-session-conv-123"
    /\ IdSeq(appendLog[1].events) = <<1, 2, 3>>

\* the goroutines inside createStream for a key
Creating(streamID) == { t \in Threads : pc[t] = "create" /\ cur[t].stream = streamID }

\* C9 (as claimed): EnsureStream, called twice or more with one key, sequentially or
\* concurrently, calls createStream at most once for that key.
C9_AtMostOneCreateCall ==
    \A s \in Streams : Len(createLog[s]) + Cardinality(Creating(s)) <= 1

\* C9 (amended): at most one createStream call per key is in progress, and a
\* createStream call that succeeded is the last one for its key: only a failed
\* creation is followed by another.
C9_OneCreateUnlessFailed ==
    \A s \in Streams :
        /\ Cardinality(Creating(s)) <= 1
        /\ \A i \in 1..Len(createLog[s]) :
              createLog[s][i] => i = Len(createLog[s]) /\ Creating(s) = {}

\* C9 witness: two concurrent callers have both passed EnsureStream for one key,
\* with a single creation call
C9_Witness ==
    \E s \in Streams :
        /\ createLog[s] = << TRUE >>
        /\ \A p \in Pushers : pc[p] = "append" /\ cur[p].stream = s

\* a goroutine leaves EnsureStream's first or second check
EnsureStep(t) == pc[t] \in {"ensure", "ensureLock"} /\ pc'[t] # pc[t]

\* C10: knownStreams only grows, and EnsureStream for a key in it returns success
\* (flushBatch goes on to AppendEvents) without a creation call.
C10_KnownStreamsOnlyGrow ==
    /\ [](\A t \in Threads : pc[t] = "create" => cur[t].stream \notin knownStreams)
    /\ [][/\ knownStreams \subseteq knownStreams'
          /\ \A t \in Threads :
                (EnsureStep(t) /\ cur[t].stream \in knownStreams) =>
                    /\ pc'[t] = "append"
                    /\ UNCHANGED << createLog, failures, knownStreams >>]_vars

\* C10 witness: a caller that missed the key under the read lock waits for the
\* write lock while the key has been added
C10_Witness ==
    \E t \in Threads : pc[t] = "ensureLock" /\ cur[t].stream \in knownStreams

\* C11: a finished creation call adds its key to knownStreams exactly when it ended
\* with a status below 400 or with 409; when it ended with another status >= 400 or
\* with an error of doWithRetry, knownStreams is unchanged and the flush fails; an
\* EnsureStream that finds its key unknown under the write lock calls createStream.
C11_KnownIffCreated ==
    /\ [][\A t \in Threads, r \in DoResults :
            CreateStreamDone(t, r) =>
                IF ~r.err /\ (r.status < 400 \/ r.status = 409)
                THEN /\ knownStreams' = knownStreams \cup {cur[t].stream}
                     /\ pc'[t] = "append"
                ELSE /\ knownStreams' = knownStreams
                     /\ pc'[t] # "append"
                     /\ Ids(cur[t].events) \subseteq dropped']_vars
    /\ [][\A t \in Threads :
            (pc[t] = "ensureLock" /\ pc'[t] # pc[t]) =>
                (pc'[t] = "create" <=> cur[t].stream \notin knownStreams)]_vars
    /\ [](\A s \in Streams :
            s \in knownStreams <=> \E i \in 1..Len(createLog[s]) : createLog[s][i])

\* C11 witness: the creation of a key failed, the next EnsureStream for the key
\* created it again, with 409 or a success status, and the key is known
C11_Witness ==
    \E s \in Streams : createLog[s] = << FALSE, TRUE >> /\ s \in knownStreams

\* the outcomes of the round trips of the call so far, without the attempts that
\* never got to the store
RECURSIVE RoundTripsOf(_)
RoundTripsOf(log) ==
    IF log = <<>> THEN <<>>
    ELSE (IF Head(log).kind \in {"status", "refused", "reset"}
          THEN << [kind |-> Head(log).kind, status |-> Head(log).status] >>
          ELSE <<>>) \o RoundTripsOf(Tail(log))

\* what the store and the network answer to the requests of the call: the round
\* trips so far, then the ones to come
Answers == RoundTripsOf(doLog) \o script

\* attempt i of the call failed: a transport-level failure or a status >= 500
AttemptFailed(i) == doLog[i].kind # "status" \/ doLog[i].status >= 500

\* C12: doWithRetry calls httpClient.Do at most 3 times; an attempt follows only a
\* transport-level failure or a status >= 500; a response below 500 ends the call
\* and is what the caller gets; after 3 failed attempts the call returns the
\* exhaustion error.
C12_BoundedRetry ==
    /\ Len(doLog) <= 3
    /\ \A i \in 2..Len(doLog) : AttemptFailed(i - 1)
    /\ \A i \in 1..Len(doLog) :
          ~AttemptFailed(i) =>
              /\ i = Len(doLog)
              /\ rpc = "returned"
              /\ ret = [kind |-> "resp", status |-> doLog[i].status, err |-> ""]
    /\ (rpc = "returned" /\ Len(doLog) = 3 /\ AttemptFailed(3)) => ret.kind = "exhausted"
    /\ ret.kind = "exhausted" => Len(doLog) = 3

\* C12 witness: a 404 on the second attempt, after a refused connection, is
\* returned to the caller without a third attempt
C12_Witness ==
    /\ rpc = "returned"
    /\ Len(doLog) = 2
    /\ doLog[1].kind = "refused"
    /\ ret = [kind |-> "resp", status |-> 404, err |-> ""]

\* C13: when the store answers 503, 503 and then a success status to the requests
\* of a call that is not cancelled, the call returns that success after exactly 3
\* attempts.
C13_SuccessOnThirdAttempt ==
    ( /\ rpc = "returned"
      /\ ~ctxDone
      /\ Answers = << [kind |-> "status", status |-> 503],
                      [kind |-> "status", status |-> 503],
                      [kind |-> "status", status |-> 201] >> )
    => /\ ret = [kind |-> "resp", status |-> 201, err |-> ""]
       /\ Len(doLog) = 3

\* C14: every attempt after the first hands the transport the body of the first.
C14_RetrySendsSameBody ==
    \A i \in 2..Len(doLog) : doLog[i].body = doLog[1].body

\* C15: a backoff wait that finds the context cancelled ends the call at once with
\* the context's error and without another attempt; a call cancelled in its second
\* backoff wait has made 2 attempts and never makes a third.
C15_CancelledWaitReturns ==
    /\ [][(rpc = "select" /\ ctxDone /\ rpc' # rpc) =>
            /\ rpc' = "returned"
            /\ ret'.kind = "ctxErr"
            /\ doLog' = doLog]_vars
    /\ [][rpc = "returned" => (rpc' = "returned" /\ doLog' = doLog /\ ret' = ret)]_vars
    /\ [](ret.kind = "ctxErr" => (Len(doLog) = attempt /\ attempt < 3))

\* C15 witness: the call was cancelled in its second backoff wait, after a first
\* attempt answered with 503 and a second attempt that failed, and has returned
C15_Witness ==
    /\ rpc = "returned"
    /\ ret.kind = "ctxErr"
    /\ Len(doLog) = 2
    /\ doLog[1].kind = "status" /\ doLog[1].status = 503
    /\ doLog[2].kind # "canceled"

\* C16: a call that ends because its context was cancelled, in a backoff wait or in
\* an attempt, returns the context's error, never the exhaustion error.
C16_CancelIsNotExhaustion ==
    ( /\ rpc = "returned"
      /\ ctxDone
      /\ \/ ret.kind = "ctxErr"
         \/ doLog[Len(doLog)].kind = "canceled" )
    => ret.kind = "ctxErr"

\* C17: every pushTraces call returns nil, whether the spans carried a conversation
\* attribute or not and whether EnsureStream or AppendEvents failed or not.
C17_PushTracesReturnsNil ==
    pushRets \subseteq {""}

\* C17 witness: a pushTraces call whose own flush failed has returned
C17_Witness ==
    /\ pushRets = {""}
    /\ \A p \in Pushers : pc[p] = "idle"
    /\ \E i \in 1..Len(appendLog) : appendLog[i].by \in Pushers /\ ~appendLog[i].ok

\* C18: a pushTraces caller never waits for a network call: it is never inside
\* createStream or AppendEvents.
C18_IngestNeverInNetworkCall ==
    \A p \in Pushers : pc[p] \notin {"create", "append"}

\* a flushBatch of goroutine t returns an error in this step
FlushFails(t) == InFlight(t) /\ cur'[t] = NoBatch /\ failures' = failures + 1

\* C19: a failed flushBatch changes nothing but its own batch: the batches swapped
\* out in the same pass stay to be flushed and the goroutine goes on with them (a
\* pushTraces caller goes on with its loop), the pending events and the known
\* streams are untouched, and flushAllBuffers returns only when every batch of
\* the pass has been handed to flushBatch.
C19_FailureIsTerminalForOneBatch ==
    /\ [](\A t \in Flushers :
            pc[t] \notin (FlushStates \cup {"flushing"}) => toFlush[t] = NoBuffers)
    /\ [][\A t \in Threads :
            FlushFails(t) =>
                /\ toFlush' = toFlush
                /\ buffers' = buffers
                /\ knownStreams' = knownStreams
                /\ todo' = todo
                /\ pc'[t] = IF t \in Pushers THEN "relock"
                            ELSE IF toFlush[t] # NoBuffers THEN "flushing"
                            ELSE IF t = "timer" THEN "select" ELSE "done"]_vars

\* C19 witness: the timer's append for one partition failed, its append for the
\* other partition succeeded, and a later batch of the first partition was appended
C19_Witness ==
    /\ Len(appendLog) = 3
    /\ appendLog[1].by = "timer" /\ ~appendLog[1].ok
    /\ appendLog[2].by = "timer" /\ appendLog[2].ok
    /\ appendLog[2].stream # appendLog[1].stream
    /\ appendLog[3].ok /\ appendLog[3].stream = appendLog[1].stream

\* C20: the events of a failed flush are nowhere in the exporter afterwards: not
\* pending, not in a batch being flushed or waiting to be flushed, and in no
\* AppendEvents call but the one that failed.
C20_DroppedNeverRebuffered ==
    \A id \in dropped :
        /\ id \notin PendingIds
        /\ \A t \in Threads : id \notin Ids(cur[t].events)
        /\ \A t \in Flushers, s \in Streams : id \notin Ids(toFlush[t][s])
        /\ Cardinality(AppendCallsOf(id)) <= 1
        /\ \A i \in AppendCallsOf(id) : ~appendLog[i].ok

\* C20 witness: after a failed append, a later batch of the same partition was
\* appended while the partition holds pending events again
C20_Witness ==
    \E i, j \in 1..Len(appendLog) :
        /\ i < j
        /\ ~appendLog[i].ok /\ appendLog[j].ok
        /\ appendLog[i].stream = appendLog[j].stream
        /\ Ids(appendLog[i].events) \subseteq dropped
        /\ buffers[appendLog[i].stream] # <<>>

\* a goroutine leaves the first step of flushBatch
FlushBatchStep(t) == pc[t] = "ensure" /\ pc'[t] # pc[t]

\* C21: flushBatch with no events returns nil at once, with no EnsureStream and no
\* AppendEvents; no goroutine is ever in a client call with an empty batch; and
\* flushAllBuffers hands no partition without pending events to flushBatch.
C21_NoRemoteCallForEmptyBatch ==
    /\ [][\A t \in Threads :
            (FlushBatchStep(t) /\ cur[t].events = <<>>) =>
                /\ pc'[t] \notin FlushStates
                /\ UNCHANGED << knownStreams, streamsMu, createLog, appendLog, failures,
                                dropped >>]_vars
    /\ [](\A t \in Threads :
            pc[t] \in {"ensureLock", "create", "append"} => cur[t].events # <<>>)
    /\ [](\A i \in 1..Len(appendLog) : appendLog[i].events # <<>>)
    /\ [][\A t \in Flushers, s \in Streams :
            (buffers[s] = <<>> /\ toFlush[t][s] = <<>>) => toFlush'[t][s] = <<>>]_vars
    /\ [](\A t \in Flushers : InFlight(t) => cur[t].events # <<>>)

\* C21 witness: flushBatch is called with an empty batch, and the timer flushes
\* the one partition with pending events while the other partition is empty, and
\* no stream was created and nothing appended so far
C21_Witness ==
    /\ pc["direct"] = "ensure"
    /\ nextId = 1
    /\ arrival # NoBuffers
    /\ InFlight("timer")
    /\ toFlush["timer"] = NoBuffers
    /\ appendLog = <<>>
    /\ \A s \in Streams : createLog[s] = <<>>

\* flushAllBuffers hands a batch to flushBatch
HandsNext(t) == cur[t] # cur'[t] /\ cur'[t] # NoBatch

RunningTimers == { t \in Timers : pc[t] \notin {"off", "exited"} }

\* C23: however often start was called before the first ingest, the exporter is
\* in the state one call leaves: wg counts one flushLoop, and one flushLoop runs.
C23_StartIsIdempotent ==
    /\ wg <= 1
    /\ Cardinality(RunningTimers) <= 1

(* ---------------- the functions, applied on their own ------------------ *)

\* the configurations getStreamID is given: the configured prefix
PrefixConfigs == { [StreamPrefix |-> p] : p \in {DefaultStreamPrefix, "custom-"} }

\* the conversation identifiers getStreamID is given; "" is what convertSpan
\* leaves when there is no attribute and the trace identifier is the zero one
ConversationIDs == {"", "default", "conv-123", "4bf92f"}

\* the configurations Validate is given: every field set, unset or invalid
ValidateInputs ==
    [Endpoint : {"", "https://api.s2.dev"}, APIKey : {"", "key"},
     StreamPrefix : {"", "custom-"}, BatchSize : (-1)..MaxBatchSize,
     FlushInterval : {-1, 0, 250}]

\* the values of the conversation attribute on a span or on its resource
AttrValues == {NoAttr, StrAttr(""), StrAttr("conv-123"), IntAttr}

\* the spans convertSpan is given; the trace identifier "" is the string form
\* of the zero trace identifier
SpanInputs == [attr : AttrValues, res : AttrValues, trace : {"", "4bf92f"}]

\* the history of applications: the last one, after the one before it when
\* that was an application of the same function
Applied(h, c) ==
    IF h # <<>> /\ h[Len(h)].fn = c.fn THEN << h[Len(h)], c >> ELSE << c >>

\* a call of getStreamID
GetStreamIDCall(cfg, conversationID) ==
    /\ applied' = Applied(applied,
                          [fn |-> "getStreamID",
                           in |-> [cfg |-> cfg, conversationID |-> conversationID],
                           out |-> [stream |-> getStreamID(cfg, conversationID)]])
    /\ UNCHANGED << exporterVars, retryVars, sdkVars >>

\* a call of Config.Validate
ValidateCall(c) ==
    /\ applied' = Applied(applied,
                          [fn |-> "Validate", in |-> [cfg |-> c],
                           out |-> [err |-> ValidateErr(c), cfg |-> Validate(c)]])
    /\ UNCHANGED << exporterVars, retryVars, sdkVars >>

\* a call of convertSpan
ConvertSpanCall(span) ==
    /\ applied' = Applied(applied,
                          [fn |-> "convertSpan", in |-> [span |-> span],
                           out |-> [event |-> convertSpan(span, 1)]])
    /\ UNCHANGED << exporterVars, retryVars, sdkVars >>

NextPure ==
    \/ \E cfg \in PrefixConfigs, id \in ConversationIDs : GetStreamIDCall(cfg, id)
    \/ \E c \in ValidateInputs : ValidateCall(c)
    \/ \E span \in SpanInputs : ConvertSpanCall(span)

SpecPure == Init /\ [][NextPure]_vars

\* the applications of fn in the history
CallsOf(fn) == { i \in 1..Len(applied) : applied[i].fn = fn }

\* C24: getStreamID is a function of the prefix and the conversation identifier
\* alone: two calls with the same prefix and identifier give the same stream
\* name, which is the prefix followed by the identifier, or by "default" when
\* the identifier is empty.
C24_GetStreamIDIsPure ==
    \A i \in CallsOf("getStreamID") :
        /\ applied[i].out.stream =
              applied[i].in.cfg.StreamPrefix \o
                 (IF applied[i].in.conversationID = "" THEN "default"
                  ELSE applied[i].in.conversationID)
        /\ \A j \in CallsOf("getStreamID") :
              applied[j].in = applied[i].in => applied[j].out = applied[i].out

\* C24 witness: the same empty identifier was given twice and named the default
\* stream twice
C24_Witness ==
    /\ CallsOf("getStreamID") = {1, 2}
    /\ applied[1].in = applied[2].in
    /\ applied[1].in.conversationID = ""
    /\ applied[2].out.stream = "agent-session-default"

\* C25: for one prefix, two different conversation identifiers, the empty one
\* included, never get the same stream name.
C25_PartitionKeyOneToOne ==
    \A i, j \in CallsOf("getStreamID") :
        (/\ applied[i].in.cfg = applied[j].in.cfg
         /\ applied[i].in.conversationID # applied[j].in.conversationID)
        => applied[i].out.stream # applied[j].out.stream

\* the attribute convertSpan looks at, when it is a non-empty string
HasConversationAttr(span) == getStringAttr(MergedAttr(span)) # ""

\* C26: the conversation identifier of the event is the conversation attribute
\* (of the span, or of the resource when the span has none) when that is a
\* non-empty string, and the stringified trace identifier otherwise; it is empty
\* exactly when there is no such attribute and the trace identifier is the zero
\* one, whose string form is empty.
C26_ConversationIDResolved ==
    \A i \in CallsOf("convertSpan") :
        LET span == applied[i].in.span
            id == applied[i].out.event.ConversationID
        IN  /\ HasConversationAttr(span) =>
                  /\ id = (IF span.attr.type # "none" THEN span.attr.str ELSE span.res.str)
                  /\ (IF span.attr.type # "none" THEN span.attr.type ELSE span.res.type) = "str"
            /\ ~HasConversationAttr(span) => id = span.trace
            /\ id = "" <=> (~HasConversationAttr(span) /\ span.trace = "")

\* C26 witness: a span whose attribute is not a string, on a resource that has
\* the attribute as a string, got its trace identifier; and a span without the
\* attribute got the one of its resource
C26_Witness ==
    /\ CallsOf("convertSpan") = {1, 2}
    /\ applied[1].in.span = [attr |-> IntAttr, res |-> StrAttr("conv-123"), trace |-> "4bf92f"]
    /\ applied[1].out.event.ConversationID = "4bf92f"
    /\ applied[2].in.span = [attr |-> NoAttr, res |-> StrAttr("conv-123"), trace |-> "4bf92f"]
    /\ applied[2].out.event.ConversationID = "conv-123"

\* C26 as stated: the conversation identifier is the attribute when it is a
\* non-empty string and the trace identifier otherwise, and it is never empty.
C26_ConversationIDNeverEmpty ==
    \A i \in CallsOf("convertSpan") :
        LET span == applied[i].in.span
            id == applied[i].out.event.ConversationID
        IN  /\ id = (IF HasConversationAttr(span) THEN getStringAttr(MergedAttr(span))
                     ELSE span.trace)
            /\ id # ""

\* C28: Validate returns an error exactly when the endpoint or the API key is
\* empty; otherwise a batch size <= 0 becomes 100, a flush interval <= 0 becomes
\* 5 seconds, an empty prefix becomes "agent-session-", and every other field
\* keeps its value.
C28_ValidateDefaults ==
    \A i \in CallsOf("Validate") :
        LET c == applied[i].in.cfg
            v == applied[i].out.cfg
        IN  /\ applied[i].out.err # "" <=> (c.Endpoint = "" \/ c.APIKey = "")
            /\ applied[i].out.err = "" =>
                  /\ v.Endpoint = c.Endpoint
                  /\ v.APIKey = c.APIKey
                  /\ v.BatchSize = (IF c.BatchSize <= 0 THEN 100 ELSE c.BatchSize)
                  /\ v.FlushInterval =
                        (IF c.FlushInterval <= 0 THEN 5 * 1000 ELSE c.FlushInterval)
                  /\ v.StreamPrefix =
                        (IF c.StreamPrefix = "" THEN "agent-session-" ELSE c.StreamPrefix)

\* C28 witness: a configuration with everything unset but the endpoint and the
\* key got the three defaults, and one with valid values kept them
C28_Witness ==
    /\ CallsOf("Validate") = {1, 2}
    /\ applied[1].in.cfg.BatchSize = -1
    /\ applied[1].in.cfg.FlushInterval = 0
    /\ applied[1].in.cfg.StreamPrefix = ""
    /\ applied[1].out.err = ""
    /\ applied[1].out.cfg.BatchSize = 100
    /\ applied[2].in.cfg.BatchSize = 1
    /\ applied[2].in.cfg.FlushInterval = 250
    /\ applied[2].out.err = ""
    /\ applied[2].out.cfg = applied[2].in.cfg

(* --------------------- AppendEvents over doWithRetry ------------------- *)

\* S2Event.ToJSON: the JSON object of the event, under the names of its json tags
ToJSON(e) == [span_id |-> e.id, conversation_id |-> e.ConversationID]

\* mutant: only the first event is wrapped into the request
AppendRecordsFirstOnly(events) == << [body |-> ToJSON(events[1])] >>

\* AppendEvents, lines 250-259: records, one per event, in the order of events
AppendRecords(events) == [i \in 1..Len(events) |-> [body |-> ToJSON(events[i])]]

\* AppendEvents, line 270: the URL of the request
AppendURL(endpoint, streamID) == endpoint \o "/streams/" \o streamID \o "/records"

\* what doWithRetry returned, as its caller sees it: a response or an error
DoResult(r) == [err |-> r.kind # "resp", status |-> r.status]

\* AppendEvents, lines 245-278, called on its own: an empty batch returns nil, a
\* failure of ToJSON returns its error, and otherwise one request is built and
\* handed to doWithRetry
AppendEventsCall(streamID, td, jsonOk, sc) ==
    /\ pc["direct"] = "idle"
    /\ rpc = "idle"
    /\ LET events == ConvertTraces(td, 0)
       IN  /\ cur' = [cur EXCEPT !["direct"] = [stream |-> streamID, events |-> events]]
           /\ IF events = <<>> \/ ~jsonOk
              THEN /\ pc' = [pc EXCEPT !["direct"] = "done"]
                   /\ appendLog' = Append(appendLog,
                                          [by |-> "direct", stream |-> streamID,
                                           events |-> events, ok |-> events = <<>>])
                   /\ UNCHANGED retryVars
              ELSE /\ pc' = [pc EXCEPT !["direct"] = "append"]
                   /\ NewRequestDo(AppendURL(config.Endpoint, streamID),
                                   AppendRecords(events), sc)
                   /\ UNCHANGED appendLog
    /\ UNCHANGED << config, buffers, bufferMu, stopCh, wg, knownStreams, streamsMu, todo,
                    toFlush, nextId, call, arrival, createLog, failures, dropped, preShut,
                    pushRets, lockOps >>
    /\ UNCHANGED << pureVars, sdkVars >>

\* AppendEvents, lines 278-289: doWithRetry has returned
AppendEventsReturn ==
    /\ pc["direct"] = "append"
    /\ rpc = "returned"
    /\ appendLog' = Append(appendLog,
                           [by |-> "direct", stream |-> cur["direct"].stream,
                            events |-> cur["direct"].events,
                            ok |-> ~appendEventsErr(DoResult(ret))])
    /\ pc' = [pc EXCEPT !["direct"] = "done"]
    /\ UNCHANGED << config, buffers, bufferMu, stopCh, wg, knownStreams, streamsMu, todo,
                    cur, toFlush, nextId, call, arrival, createLog, failures, dropped,
                    preShut, pushRets, lockOps >>
    /\ UNCHANGED << retryVars, pureVars, sdkVars >>

\* one AppendEvents call, with a context that can be cancelled at any time
NextAppend ==
    \/ /\ rpc = "idle"
       /\ \E s \in Streams, td \in TraceBatches \cup {<<>>}, jsonOk \in BOOLEAN,
             sc \in Scripts : AppendEventsCall(s, td, jsonOk, sc)
    \/ CtxCancel
    \/ BackoffSelect
    \/ \E readAll \in BOOLEAN : HttpDoCancelled(readAll)
    \/ HttpDoShortBody
    \/ HttpDoRoundTrip
    \/ AppendEventsReturn

SpecAppend == Init /\ [][NextAppend]_vars

\* the AppendEvents call on a non-empty batch has returned
AppendReturned == pc["direct"] = "done" /\ cur["direct"].events # <<>>

\* the records of a request body are the events, one each, in their order
RecordsOf(body, events) ==
    /\ Len(body) = Len(events)
    /\ \A k \in 1..Len(events) :
          /\ body[k].body.span_id = events[k].id
          /\ body[k].body.conversation_id = events[k].ConversationID

MaxSessionEvents == 4

\* how the single httpClient.Do of the agentsdk AppendEvent can end: the record
\* is appended, or the request fails and the error is dropped by emitEvent
SessionOutcomes == {"appended", "failed"}

\* Session.emitEvent, lines 95-108: under s.mu the sequence number is taken and
\* written into the event; after the unlock a goroutine is started that appends
\* the event to the stream of the session
EmitEvent ==
    /\ eventSeq < MaxSessionEvents
    /\ eventSeq' = eventSeq + 1
    /\ emitting' = emitting \cup {eventSeq + 1}
    /\ UNCHANGED sessionLog
    /\ UNCHANGED << exporterVars, retryVars, pureVars >>

\* the goroutine of emitEvent, lines 103-106, and the agentsdk AppendEvent, lines
\* 65-102: one request, no retry; the result is discarded
SessionAppendEvent(seq, o) ==
    /\ seq \in emitting
    /\ emitting' = emitting \ {seq}
    /\ sessionLog' = IF o = "appended" THEN Append(sessionLog, seq) ELSE sessionLog
    /\ UNCHANGED eventSeq
    /\ UNCHANGED << exporterVars, retryVars, pureVars >>

NextSession ==
    \/ EmitEvent
    \/ \E seq \in 1..MaxSessionEvents, o \in SessionOutcomes : SessionAppendEvent(seq, o)

SpecSession == Init /\ [][NextSession]_vars

\* C29: the records of the session's stream are in the order of their sequence
\* numbers, the order in which emitEvent was called.
C29_StreamInSequenceOrder ==
    \A i, j \in 1..Len(sessionLog) : i < j => sessionLog[i] < sessionLog[j]

\* C30: a goroutine inside flushBatch, where EnsureStream and AppendEvents are
\* called, does not hold the buffer mutex: pushTraces has released it after the
\* swap, and flushAllBuffers holds it for the swap only.  Another caller can take
\* the mutex and buffer events while the flush is running.
C30_NoRemoteCallUnderBufferMu ==
    /\ \A t \in Threads : InFlight(t) => bufferMu # t
    /\ \A t \in Flushers : bufferMu # t

\* C30 witness: p1 is inside AppendEvents with a batch it swapped out, and p2
\* holds the buffer mutex and has buffered the event of its call
C30_Witness ==
    /\ pc["p1"] = "append"
    /\ cur["p1"].events # <<>>
    /\ bufferMu = "p2"
    /\ pc["p2"] = "loop"
    /\ todo["p2"] = <<>>
    /\ \E s \in Streams : buffers[s] # <<>> /\ Ids(buffers[s]) \subseteq call["p2"]

\* the createStream call of goroutine t returns an error in this step
CreateFails(t) ==
    /\ pc[t] = "create"
    /\ Len(createLog'[cur[t].stream]) = Len(createLog[cur[t].stream]) + 1
    /\ ~createLog'[cur[t].stream][Len(createLog'[cur[t].stream])]

\* the events of the batches waiting for EnsureStream
EnsuringIds ==
    UNION { Ids(cur[t].events) : t \in { u \in Threads : pc[u] \in {"ensure", "ensureLock", "create"} } }

\* the events in a batch that is handed off and not yet flushed
InFlightIds ==
    UNION { Ids(cur[t].events) : t \in Threads }
    \cup UNION { Ids(toFlush[t][s]) : t \in Flushers, s \in Streams }

\* C31: when EnsureStream fails inside flushBatch, flushBatch returns in the same
\* step with its error: AppendEvents has not been called for the batch and is not
\* called, the stream is not marked known, and the events of the batch are
\* dropped: they are in no buffer and in no batch from then on.
C31_EnsureFailureAbortsFlush ==
    /\ [][\A t \in Threads :
            CreateFails(t) =>
                /\ pc'[t] \notin FlushStates
                /\ cur'[t] = NoBatch
                /\ Ids(cur[t].events) \subseteq dropped'
                /\ failures' = failures + 1
                /\ appendLog' = appendLog
                /\ knownStreams' = knownStreams
                /\ buffers' = buffers]_vars
    /\ [](\A id \in EnsuringIds : AppendCallsOf(id) = {})
    /\ [](dropped \cap (PendingIds \cup InFlightIds) = {})

\* C31 witness: the createStream of the timer's flush failed; its batch of two
\* events is dropped with no AppendEvents call, and the timer waits again
C31_Witness ==
    /\ createLog["agent-session-conv-123"] = << FALSE >>
    /\ dropped = {1, 2}
    /\ appendLog = <<>>
    /\ knownStreams = {}
    /\ pc["timer"] = "select"
    /\ PendingIds = {}

(* ------------------------------ liveness ------------------------------- *)

\* what the scheduling of the program gives, with every network call returning:
\* a goroutine that can take a step takes it, a goroutine waiting for a free
\* mutex gets it, and the select of flushLoop takes the stop case when that
\* stays ready.  Ingest calls and ticks are up to the environment; their number
\* is bounded here, so weak fairness is enough.
Fairness ==
    /\ WF_vars(PushTracesRelock("p1"))
    /\ WF_vars(PushTracesEvent("p1"))
    /\ WF_vars(PushTracesReturn("p1"))
    /\ WF_vars(FlushLoopStop("timer"))
    /\ WF_vars(FlushAllSwap("shutdown"))
    /\ \A t \in Flushers : WF_vars(\E s \in Streams : FlushAllNext(t, s))
    /\ \A t \in SeqThreads : WF_vars(EnsureStreamFast(t))
    /\ \A t \in SeqThreads : WF_vars(EnsureStreamSlow(t))
    /\ \A t \in SeqThreads : WF_vars(\E r \in DoResults : CreateStreamDone(t, r))
    /\ \A t \in SeqThreads : WF_vars(\E r \in DoResults : AppendEventsDone(t, r))

\* one pushTraces caller, the flush timer and shutdown, fairly scheduled
SpecLive == Init /\ [][NextSeq]_vars /\ Fairness

\* C32: once shutdown is called, flushLoop takes the stop case and exits, and
\* shutdown returns, its final flushAllBuffers having flushed every batch it
\* swapped out; a flushLoop that has exited accepts no tick.
C32_ShutdownReturns ==
    /\ (pc["shutdown"] = "wait") ~> (pc["shutdown"] = "done")
    /\ stopCh ~> (pc["timer"] \in {"off", "exited"})
    /\ [](pc["shutdown"] = "done" =>
             /\ pc["timer"] \in {"off", "exited"}
             /\ toFlush["shutdown"] = NoBuffers
             /\ cur["shutdown"] = NoBatch)
    /\ [][pc["timer"] = "exited" =>
             /\ pc'["timer"] = "exited"
             /\ toFlush'["timer"] = toFlush["timer"]
             /\ cur'["timer"] = cur["timer"]]_vars

\* C32 witness: shutdown has returned after flushLoop exited, and its final flush
\* appended a batch
C32_Witness ==
    /\ pc["shutdown"] = "done"
    /\ pc["timer"] = "exited"
    /\ wg = 0
    /\ \E i \in 1..Len(appendLog) : appendLog[i].by = "shutdown" /\ appendLog[i].ok

\* C33: whenever no goroutine holds the buffer mutex, every partition holds fewer
\* pending events than the batch size.
C33_PendingBelowBatchSize ==
    bufferMu = NoThread => \A s \in Streams : Len(buffers[s]) < config.BatchSize

\* C33 witness: while p1 flushes a full batch of a partition with the mutex
\* released, p2 has buffered one event into the same partition and returned
C33_Witness ==
    /\ bufferMu = NoThread
    /\ pc["p1"] = "append"
    /\ pc["p2"] = "idle"
    /\ Len(cur["p1"].events) = config.BatchSize
    /\ Len(buffers[cur["p1"].stream]) = config.BatchSize - 1
    /\ buffers[cur["p1"].stream] # <<>>

\* the events buffered so far by pushTraces
IngestedIds == UNION { { arrival[s][i] : i \in 1..Len(arrival[s]) } : s \in Streams }

\* how often event id occurs in the sequence of events
CountIn(events, id) == Cardinality({ i \in 1..Len(events) : events[i].id = id })

\* the sum of f over the set S
RECURSIVE SumOver(_, _)
SumOver(S, f) ==
    IF S = {} THEN 0
    ELSE LET x == CHOOSE y \in S : TRUE
         IN  f[x] + SumOver(S \ {x}, f)

\* the places event id is in: pending in a partition, in a batch that is swapped
\* out and not yet flushed, in a batch that was appended, or dropped
Places(id) ==
    SumOver(Streams, [s \in Streams |-> CountIn(buffers[s], id)])
    + SumOver(Threads, [t \in Threads |-> CountIn(cur[t].events, id)])
    + SumOver(Flushers \X Streams,
              [x \in Flushers \X Streams |-> CountIn(toFlush[x[1]][x[2]], id)])
    + SumOver({ i \in 1..Len(appendLog) : appendLog[i].ok },
              [i \in 1..Len(appendLog) |-> CountIn(appendLog[i].events, id)])
    + (IF id \in dropped THEN 1 ELSE 0)

\* C34: every ingested event is in exactly one place, once: pending in its
\* partition, in a swapped-out batch whose flush has not finished, appended, or
\* dropped by a failed flush; an event not yet ingested is in none.
C34_EventConservation ==
    /\ \A id \in IngestedIds : Places(id) = 1
    /\ \A id \in (1..MaxEvents) \ IngestedIds : Places(id) = 0
    /\ IngestedIds \subseteq 1..nextId

\* C34 witness: of three ingested events one was appended, one was dropped by a
\* failed flush and one is in a batch being flushed while a caller is buffering
C34_Witness ==
    /\ IngestedIds = {1, 2, 3}
    /\ Cardinality(AppendedIds) = 1
    /\ Cardinality(dropped) = 1
    /\ Cardinality(InFlightIds) = 1
    /\ PendingIds = {}

\* the goroutines inside createStream, for any key
CreatingAny == { t \in Threads : pc[t] = "create" }

\* goroutine u is inside EnsureStream, before or between its two checks
InEnsureStream(u) == pc[u] \in {"ensure", "ensureLock"} /\ cur[u].events # <<>>

\* C35: a goroutine is inside createStream exactly while it holds the write lock
\* of the stream cache, so at most one creation is in progress over all keys; and
\* while one is in progress no other EnsureStream call gets past a check, whether
\* its key is known or not.
C35_CreationHoldsStreamLock ==
    /\ [](\A t \in Threads : pc[t] = "create" <=> streamsMu = t)
    /\ [](Cardinality(CreatingAny) <= 1)
    /\ [][\A t, u \in Threads :
            (pc[t] = "create" /\ u # t /\ InEnsureStream(u)) => pc'[u] = pc[u]]_vars

\* C35 witness: while one caller creates a stream, the other is inside EnsureStream
\* for a different key that is already known
C35_Witness ==
    \E t, u \in Threads :
        /\ pc[t] = "create"
        /\ pc[u] = "ensure"
        /\ InEnsureStream(u)
        /\ cur[u].stream \in knownStreams
        /\ cur[u].stream # cur[t].stream

\* goroutine t waits for the buffer mutex (pushTraces, line 76)
WaitsForBufferMu(t) == t \in Pushers /\ pc[t] = "relock" /\ bufferMu # NoThread

\* goroutine t waits for the lock of the stream cache (EnsureStream, lines 186, 193)
WaitsForStreamsMu(t) == InEnsureStream(t) /\ streamsMu # NoThread

\* caller p returns from pushTraces in this step: the unlock of line 79
PushReturns(p) == pc[p] = "loop" /\ pc'[p] = "idle"

\* C36: a pushTraces call holds the buffer mutex exactly in its loop, where it
\* appends and swaps; the mutex is taken only when it is free and released only
\* by its holder; when the call returns it has released the mutex once more than
\* it has locked it again; a holder of the buffer mutex neither holds nor waits
\* for the stream lock, a holder of the stream lock is inside createStream and
\* neither holds nor waits for the buffer mutex; and the holder a goroutine waits
\* for can always take a step.
C36_LockingBalanced ==
    /\ [](\A p \in Pushers : bufferMu = p <=> pc[p] = "loop")
    /\ [](bufferMu \in Pushers \cup {NoThread})
    /\ [](\A t \in Threads : streamsMu = t => pc[t] = "create" /\ bufferMu # t)
    /\ [](\A p \in Pushers :
            /\ pc[p] = "loop" => lockOps[p].unlock = lockOps[p].relock
            /\ pc[p] \in FlushStates \cup {"relock"} =>
                  lockOps[p].unlock = lockOps[p].relock + 1)
    /\ [][/\ bufferMu' # bufferMu => (bufferMu = NoThread \/ bufferMu' = NoThread)
          /\ \A p \in Pushers :
                /\ (bufferMu = p /\ bufferMu' # p) => pc[p] = "loop" /\ pc'[p] # "loop"
                /\ PushReturns(p) =>
                      /\ bufferMu = p /\ bufferMu' = NoThread
                      /\ lockOps[p].unlock + 1 = lockOps[p].relock + 1]_vars
    /\ [](\A t \in Threads :
            /\ WaitsForBufferMu(t) =>
                  ENABLED (PushTracesEvent(bufferMu) \/ PushTracesReturn(bufferMu))
            /\ WaitsForStreamsMu(t) =>
                  ENABLED (\E r \in DoResults : CreateStreamDone(streamsMu, r)))

\* C36 witness: p1 has unlocked for a flush and locked again once and is in its
\* loop, while p2, back from a flush of its own, waits for the buffer mutex
C36_Witness ==
    /\ pc["p1"] = "loop"
    /\ lockOps["p1"] = [relock |-> 1, unlock |-> 1]
    /\ pc["p2"] = "relock"
    /\ lockOps["p2"] = [relock |-> 0, unlock |-> 1]
    /\ WaitsForBufferMu("p2")

\* shutdown is past the swap of its final flushAllBuffers
ShutdownPastSwap == pc["shutdown"] \in FlushStates \cup {"flushing", "done"}

\* partition s changes in this step by a loop turn of a pushTraces caller: the
\* event is appended, or it brings the partition to the batch size and the
\* partition is swapped out into the caller's batch
IngestOnly(s) ==
    \E p \in Pushers :
        /\ LoopTurn(p)
        /\ NextStream(p) = s
        /\ \/ buffers'[s] = Append(buffers[s], Head(todo[p]))
           \/ /\ Len(buffers[s]) + 1 = config.BatchSize
              /\ buffers'[s] = <<>>
              /\ cur'[p] = [stream |-> s, events |-> Append(buffers[s], Head(todo[p]))]

\* C37: once shutdown is past its final swap, and so once it has returned, every
\* flushLoop has exited and holds no batch, and a partition changes only by
\* ingest: an event stays pending until a later event brings its partition to
\* the batch size.
C37_NoTimerFlushAfterShutdown ==
    /\ [](ShutdownPastSwap =>
             \A t \in Timers :
                 /\ pc[t] \in {"off", "exited"}
                 /\ cur[t] = NoBatch
                 /\ toFlush[t] = NoBuffers)
    /\ [][ShutdownPastSwap =>
             \A s \in Streams : buffers'[s] # buffers[s] => IngestOnly(s)]_vars
    /\ [][pc["shutdown"] = "done" => pc'["shutdown"] = "done"]_vars

\* C37 witness: shutdown has returned, flushLoop has exited, and an event ingested
\* since is pending, below the batch size, with nothing left to flush it
C37_Witness ==
    /\ pc["shutdown"] = "done"
    /\ pc["timer"] = "exited"
    /\ pc["p1"] = "idle"
    /\ PendingIds # {}
    /\ PendingIds \cap preShut = {}

====
